---- MODULE Spec2Model ----
(***************************************************************************)
(* Model of the SQL validation service of pg-mcp                           *)
(* (src/w5/pg-mcp/src/pg_mcp/services/sql_validator.py) together with the  *)
(* read-only executor that runs the statements it accepts.                 *)
(*                                                                         *)
(* A SQL text is a sequence of items (statements, separators, text the     *)
(* parser cannot read) with an optional comment.  A statement is a tree    *)
(* that says what the text means.  Parse turns a text into the syntax      *)
(* trees the validator sees, the way sqlglot (default dialect) does:       *)
(* EXPLAIN, VACUUM and transaction control become an opaque Command,       *)
(* functions sqlglot has a class for become typed nodes, all others        *)
(* Anonymous.  Identifiers are sequences of characters, so lower-casing    *)
(* and the search for "ANALYZE" in the text are computed.                  *)
(*                                                                         *)
(* The module also models the server process (src/w5/pg-mcp/src/pg_mcp/    *)
(* server.py): the lifespan coroutine, step by step, with the module       *)
(* globals it assigns, and the query tool; the circuit breaker that       *)
(* guards the language-model calls; and the rate limiter with the tasks    *)
(* that enter and leave its scope.  Each part has its own specification    *)
(* (SpecValidator, SpecServer, SpecBreaker, SpecLimiter) in which the      *)
(* other parts are at rest.                                                *)
(***************************************************************************)
EXTENDS Integers, Sequences, FiniteSets, TLC

VARIABLES
    \* the SQL validator in service
    cfg,      \* the SQLValidator instance: block-lists and explain_policy
    sql,      \* the SQL text of the request in progress
    verdict,  \* outcome of validate_or_raise on sql
    ran,      \* the steps validate_or_raise took on sql, with their outcomes
    result,   \* what validate returned for sql: <<is_valid, error_message>>
    db,       \* database contents: per table, "initial" or "changed"
    phase,    \* "idle" | "validated" | "executed"
    \* the server process: module globals of server.py and the lifespan
    env,              \* os.environ and what the settings file holds
    _settings,        \* "None" or the loaded Settings
    _pools,           \* "None" or the registry: database name -> pool
    _schema_cache,    \* "None" or the SchemaCache
    _metrics,         \* "None" or the MetricsCollector
    _circuit_breaker, \* "None" or the CircuitBreaker
    _rate_limiter,    \* "None" or the MultiRateLimiter
    _orchestrator,    \* "None" or the QueryOrchestrator
    life,             \* the lifespan coroutine: position, pending exception,
                      \* and what it has done to the pools and the refresher
    call,             \* the query call in progress, or NoCall
    \* the circuit breaker on its own
    breaker,  \* the CircuitBreaker instance
    clock,    \* time.monotonic()
    probe,    \* the last operation on the breaker and what it returned
    tripped,  \* when the breaker last became OPEN, and the last failure
    \* the rate limiter on its own
    limiter,  \* the RateLimiter instance
    task      \* per task: "outside" | "waiting" | "inside" the limiter's scope

validatorVars == <<cfg, sql, verdict, ran, result, db, phase>>
serverVars ==
    <<env, _settings, _pools, _schema_cache, _metrics, _circuit_breaker,
      _rate_limiter, _orchestrator, life, call>>
breakerVars == <<breaker, clock, probe, tripped>>
limiterVars == <<limiter, task>>

vars == <<validatorVars, serverVars, breakerVars, limiterVars>>

----------------------------------------------------------------------------
(* Characters and words                                                    *)

UpperAlphabet ==
    <<"A","B","C","D","E","F","G","H","I","J","K","L","M",
      "N","O","P","Q","R","S","T","U","V","W","X","Y","Z">>

LowerAlphabet ==
    <<"a","b","c","d","e","f","g","h","i","j","k","l","m",
      "n","o","p","q","r","s","t","u","v","w","x","y","z">>

\* str.lower() / str.upper() on one character
LowerChar(ch) ==
    IF \E i \in DOMAIN UpperAlphabet : UpperAlphabet[i] = ch
    THEN LowerAlphabet[CHOOSE i \in DOMAIN UpperAlphabet : UpperAlphabet[i] = ch]
    ELSE ch

UpperChar(ch) ==
    IF \E i \in DOMAIN LowerAlphabet : LowerAlphabet[i] = ch
    THEN UpperAlphabet[CHOOSE i \in DOMAIN LowerAlphabet : LowerAlphabet[i] = ch]
    ELSE ch

Lower(w) == [i \in DOMAIN w |-> LowerChar(w[i])]
Upper(w) == [i \in DOMAIN w |-> UpperChar(w[i])]

\* Python's `needle in hay` on strings
Contains(hay, needle) ==
    \E i \in 0..(Len(hay) - Len(needle)) :
        \A j \in 1..Len(needle) : hay[i + j] = needle[j]

\* f"{table_name}.{col_name}"
Qualified(tname, cname) == tname \o <<".">> \o cname

NoWord == <<>>

\* identifiers and literals of the modelled SQL texts
users       == <<"u","s","e","r","s">>
USERS       == <<"U","S","E","R","S">>
audit       == <<"a","u","d","i","t">>
analyze_log == <<"a","n","a","l","y","z","e","_","l","o","g">>
alias_u     == <<"u">>
cte_c       == <<"c">>
col_id      == <<"i","d">>
password    == <<"p","a","s","s","w","o","r","d">>
Password    == <<"P","a","s","s","w","o","r","d">>
pg_sleep    == <<"p","g","_","s","l","e","e","p">>
PG_SLEEP    == <<"P","G","_","S","L","E","E","P">>
upper       == <<"u","p","p","e","r">>
lit_1       == <<"1">>

\* keywords as they are written in the text
kwExplain   == <<"E","X","P","L","A","I","N">>
kwexplain   == <<"e","x","p","l","a","i","n">>
kwANALYZE   == <<"A","N","A","L","Y","Z","E">>
kwanalyze   == <<"a","n","a","l","y","z","e">>
kwANALYSE   == <<"A","N","A","L","Y","S","E">>
kwVACUUM    == <<"V","A","C","U","U","M">>
kwCOMMIT    == <<"C","O","M","M","I","T">>
----------------------------------------------------------------------------
(* SQL texts: what is written                                              *)

\* One node of a statement as written: kw is the SQL construct, name and
\* qual the words it carries, kids its parts in the order written.
Stmt(kw, name, qual, kids) ==
    [kw |-> kw, name |-> name, qual |-> qual, kids |-> kids]

Star              == Stmt("STAR", NoWord, NoWord, <<>>)
Lit(w)            == Stmt("LITERAL", w, NoWord, <<>>)
Col(name, qual)   == Stmt("COLUMN", name, qual, <<>>)
Call(fn, arg)     == Stmt("CALL", fn, NoWord, <<arg>>)
Tab(name, alias)  == Stmt("TABLE", name, alias, <<>>)
\* SELECT <proj> FROM <from>
Sel(proj, from)   == Stmt("SELECT", NoWord, NoWord, <<proj, from>>)
\* WITH c AS (<body>) SELECT * FROM c
WithCte(body)     ==
    Stmt("SELECT", NoWord, NoWord,
         <<Star, Tab(cte_c, NoWord), Stmt("CTE", cte_c, NoWord, <<body>>)>>)
\* SELECT * FROM (<q>) AS c
FromSub(q)        ==
    Stmt("SELECT", NoWord, NoWord, <<Star, Stmt("SUBQUERY", cte_c, NoWord, <<q>>)>>)
\* (<q>)
Paren(q)          == Stmt("SUBQUERY", NoWord, NoWord, <<q>>)
\* <l> UNION | INTERSECT | EXCEPT <r>
SetOp(kw, l, r)   == Stmt(kw, NoWord, NoWord, <<l, r>>)
\* INSERT INTO t ..., DROP TABLE t, ...
WriteStmt(kw, t)  == Stmt(kw, NoWord, NoWord, <<Tab(t, NoWord)>>)
\* EXPLAIN [ANALYZE] <inner>; written is the keyword as typed, opt the option
Explain(written, opt, inner) == Stmt("EXPLAIN", written, opt, <<inner>>)
Vacuum            == Stmt("VACUUM", kwVACUUM, NoWord, <<Tab(users, NoWord)>>)
Commit            == Stmt("COMMIT", kwCOMMIT, NoWord, <<>>)

Semi    == Stmt(";", NoWord, NoWord, <<>>)
Garbage == Stmt("?", NoWord, NoWord, <<>>)

SetOpKw  == {"UNION", "INTERSECT", "EXCEPT"}
\* the forbidden set of the specification, section 4.3
ForbiddenKw ==
    {"INSERT", "UPDATE", "DELETE", "CREATE", "DROP", "ALTER", "GRANT",
     "REVOKE", "TRUNCATE", "VACUUM", "COPY"}
\* statements PostgreSQL admits as the body of a CTE besides queries
CteWriteKw == {"INSERT", "UPDATE", "DELETE"}

Benign == Sel(Star, Tab(audit, NoWord))

CoreSelects ==
    { Benign,
      Sel(Col(col_id, NoWord), Tab(users, NoWord)),
      Sel(Col(col_id, NoWord), Tab(USERS, alias_u)),
      Sel(Col(Password, NoWord), Tab(users, NoWord)),
      Sel(Col(password, users), Tab(users, NoWord)),
      Sel(Col(password, alias_u), Tab(users, alias_u)),
      Sel(Col(password, NoWord), Tab(audit, NoWord)),
      Sel(Call(pg_sleep, Lit(lit_1)), Tab(audit, NoWord)),
      Sel(Call(PG_SLEEP, Lit(lit_1)), Tab(audit, NoWord)),
      Sel(Call(upper, Lit(pg_sleep)), Tab(audit, NoWord)),
      Sel(Call(upper, Col(col_id, NoWord)), Tab(audit, NoWord)),
      Sel(Star, Tab(analyze_log, NoWord)) }

\* bounds of the model
MaxNest  == 1    \* depth of CTE / subquery / set-operation nesting
MaxStmts == 3    \* statements in one text

RECURSIVE Queries(_)
Queries(n) ==
    IF n = 0 THEN CoreSelects
    ELSE LET prev == Queries(n - 1) IN
         prev
         \cup { WithCte(q) : q \in prev }
         \cup { WithCte(WriteStmt(kw, users)) : kw \in CteWriteKw }
         \cup { FromSub(q) : q \in prev }
         \cup { SetOp(kw, q, Benign) : kw \in SetOpKw, q \in prev }

AllQueries == Queries(MaxNest)

RootWrites == { WriteStmt(kw, users) : kw \in ForbiddenKw \ {"VACUUM"} } \cup {Vacuum}

ExplainForms ==
    { <<kwExplain, NoWord>>, <<kwexplain, kwanalyze>>,
      <<kwExplain, kwANALYZE>>, <<kwExplain, kwANALYSE>> }

\* the statements put under EXPLAIN: the plain selects, one level of
\* nesting, and the data-modifying statements
Explainable ==
    CoreSelects
    \cup { SetOp("UNION", q, Benign) : q \in CoreSelects }
    \cup { WriteStmt(kw, users) : kw \in CteWriteKw }

Statements ==
    AllQueries \cup RootWrites \cup {Commit}
    \cup { Paren(q) : q \in CoreSelects }
    \cup { Explain(f[1], f[2], s) : f \in ExplainForms, s \in Explainable }

\* a text: the items in order and the words of its comment, if any
Text(items, comment) == [items |-> items, comment |-> comment]

RECURSIVE Joined(_)
\* s1; s2; ...; sn
Joined(ss) ==
    IF Len(ss) <= 1 THEN ss
    ELSE <<Head(ss), Semi>> \o Joined(Tail(ss))

Stacked == { Benign, Commit, WriteStmt("DELETE", users) }

Seeds == { Benign,
           Sel(Col(col_id, NoWord), Tab(users, NoWord)),
           Explain(kwExplain, NoWord, Benign),
           WriteStmt("DELETE", users) }

Texts ==
    { Text(<<s>>, NoWord) : s \in Statements }
    \cup { Text(<<s, Semi>>, NoWord) : s \in Seeds }
    \cup { Text(<<s>>, kwanalyze) : s \in Seeds }
    \cup { Text(Joined(ss), NoWord) :
             ss \in UNION { [1..n -> Stacked] : n \in 2..MaxStmts } }
    \cup { Text(<<>>, NoWord), Text(<<>>, kwanalyze), Text(<<Semi>>, NoWord),
           Text(<<Garbage>>, NoWord), Text(<<Benign, Garbage>>, NoWord),
           Text(<<Benign, Semi, Semi>>, NoWord),
           Text(<<Benign, Semi, Garbage>>, NoWord) }
----------------------------------------------------------------------------
(* The parser: sqlglot.parse / parse_one, default dialect                  *)

\* A node of the syntax tree.  key is Expression.key in upper case, this the
\* "this" argument when it is a string or an identifier, qual the table
\* qualifier of a Column (the alias of a Table, CTE or Subquery), kids the
\* child expressions in the order walk() visits them.
Node(key, this, qual, kids) ==
    [key |-> key, this |-> this, qual |-> qual, kids |-> kids]

NoneNode == Node("NONE", NoWord, NoWord, <<>>)

\* functions sqlglot has an expression class for, by lower-cased SQL name
TypedFuncs == { upper }
TypedKey(fn) == IF fn = upper THEN "UPPER" ELSE "ANONYMOUS"

\* class of a statement keyword that has an expression class of its own
KeyOf(kw) == IF kw = "TRUNCATE" THEN "TRUNCATETABLE" ELSE kw

\* keywords the default dialect tokenizes as COMMAND: the statement becomes
\* exp.Command(this = keyword, expression = the rest of the text as a string)
CommandKw == { "EXPLAIN", "VACUUM" }

\* the "expression" argument of a Command: the rest of the statement as one
\* string, which no check reads into
RawText(s) ==
    [key |-> "LITERAL", this |-> NoWord, qual |-> NoWord, kids |-> <<>>, raw |-> s]

RECURSIVE ParseStmt(_)
ParseStmt(s) ==
    LET parsedKids == [i \in DOMAIN s.kids |-> ParseStmt(s.kids[i])] IN
    IF s.kw \in CommandKw
      THEN Node("COMMAND", Upper(s.name), NoWord, <<RawText(s)>>)
    ELSE IF s.kw = "CALL"
      THEN IF Lower(s.name) \in TypedFuncs
             THEN Node(TypedKey(Lower(s.name)), NoWord, NoWord, parsedKids)
             ELSE Node("ANONYMOUS", s.name, NoWord, parsedKids)
    ELSE Node(KeyOf(s.kw), s.name, s.qual, parsedKids)

RECURSIVE Chunks(_)
\* Parser._parse: the tokens are cut at every semicolon; a semicolon that is
\* the last token opens no further chunk.
Chunks(items) ==
    IF items = <<>> THEN << <<>> >>
    ELSE IF Head(items) = Semi
      THEN IF Len(items) = 1 THEN << <<>> >>
           ELSE << <<>> >> \o Chunks(Tail(items))
    ELSE LET rest == Chunks(Tail(items)) IN
         << <<Head(items)>> \o Head(rest) >> \o Tail(rest)

\* a chunk the parser cannot read: unreadable text, or two statements with
\* no separator between them
BadChunk(ch) == Len(ch) > 1 \/ (Len(ch) = 1 /\ ch[1] = Garbage)

\* sqlglot.parse(sql): raises ParseError, or returns one entry per chunk
\* (None for a chunk without tokens)
Parse(text) ==
    LET chs == Chunks(text.items) IN
    IF \E i \in DOMAIN chs : BadChunk(chs[i])
    THEN [error |-> TRUE, statements |-> <<>>]
    ELSE [error |-> FALSE,
          statements |-> [i \in DOMAIN chs |->
                            IF chs[i] = <<>> THEN NoneNode
                            ELSE ParseStmt(chs[i][1])]]

\* parse_one(sql): the first statement; ParseError if it is None
ParseOne(text) ==
    LET p == Parse(text) IN
    IF p.error \/ p.statements[1] = NoneNode
    THEN [error |-> TRUE, statement |-> NoneNode]
    ELSE [error |-> FALSE, statement |-> p.statements[1]]

\* base classes of an expression class (sqlglot.expressions)
Bases(key) ==
    CASE key = "SELECT"    -> {"SELECT", "QUERY"}
      [] key = "UNION"     -> {"UNION", "SETOPERATION", "QUERY"}
      [] key = "INTERSECT" -> {"INTERSECT", "SETOPERATION", "QUERY"}
      [] key = "EXCEPT"    -> {"EXCEPT", "SETOPERATION", "QUERY"}
      [] key = "SUBQUERY"  -> {"SUBQUERY", "DERIVEDTABLE", "QUERY"}
      [] key = "ANONYMOUS" -> {"ANONYMOUS", "FUNC"}
      [] key = "UPPER"     -> {"UPPER", "FUNC"}
      [] OTHER             -> {key}

\* isinstance(node, classes)
IsInstance(node, classes) == Bases(node.key) \cap classes # {}

\* Expression.name: text("this"); Anonymous.name is the function name, and
\* a typed function has its first argument as "this"
NodeName(node) ==
    IF node.key \in {"ANONYMOUS", "TABLE", "COLUMN", "LITERAL", "CTE", "SUBQUERY"}
      THEN node.this
    ELSE IF IsInstance(node, {"FUNC"})
      THEN IF node.kids # <<>> /\ node.kids[1].key = "LITERAL"
             THEN node.kids[1].this
             ELSE NoWord
    ELSE NoWord

RECURSIVE Bfs(_)
Bfs(queue) ==
    IF queue = <<>> THEN <<>>
    ELSE <<Head(queue)>> \o Bfs(Tail(queue) \o Head(queue).kids)

\* Expression.walk(): the node and all its descendants, breadth first
Walk(node) == Bfs(<<node>>)

\* Expression.find_all(cls)
FindAll(node, classes) == SelectSeq(Walk(node), LAMBDA n : IsInstance(n, classes))

RECURSIVE Words(_)
\* every word written in a statement
Words(s) ==
    {s.name, s.qual} \cup UNION { Words(s.kids[i]) : i \in DOMAIN s.kids }

\* the words of a text, comment included
TextWords(text) ==
    {text.comment} \cup UNION { Words(text.items[i]) : i \in DOMAIN text.items }

\* "ANALYZE" in sql.upper()
UpperHasAnalyze(text) ==
    \E w \in TextWords(text) : Contains(Upper(w), kwANALYZE)

\* not sql or not sql.strip()
IsBlank(text) == text.items = <<>> /\ text.comment = NoWord
----------------------------------------------------------------------------
(* SQLValidator                                                            *)

ExplainPolicy == {"DISABLED", "EXPLAIN_ONLY", "EXPLAIN_ANALYZE"}

\* __init__ storing the block-lists as they are given
SQLValidator_init_verbatim(blocked_functions, blocked_tables, blocked_columns, explain_policy) ==
    [blocked_tables    |-> blocked_tables,
     blocked_columns   |-> blocked_columns,
     explain_policy    |-> explain_policy,
     blocked_functions |-> blocked_functions]

\* SQLValidator.__init__: the block-lists are stored lower-cased
SQLValidator_init(blocked_functions, blocked_tables, blocked_columns, explain_policy) ==
    [blocked_tables    |-> { Lower(t) : t \in blocked_tables },
     blocked_columns   |-> { Lower(cn) : cn \in blocked_columns },
     explain_policy    |-> explain_policy,
     blocked_functions |-> { Lower(f) : f \in blocked_functions }]

\* an error message: its fixed text and the key and name it quotes
Msg(text, key, arg) == [text |-> text, key |-> key, arg |-> arg]
NoMsg == Msg("", "", NoWord)

NoError == [error |-> "none", msg |-> NoMsg]
SecurityViolationError(msg) == [error |-> "SecurityViolationError", msg |-> msg]
SQLParseError(msg)          == [error |-> "SQLParseError", msg |-> msg]

allowed_types   == {"SELECT", "UNION", "SUBQUERY"}
forbidden_types ==
    {"INSERT", "UPDATE", "DELETE", "CREATE", "DROP", "ALTER", "GRANT", "REVOKE"}

\* the EXPLAIN branch with the ANALYZE test applied under every policy
\* that admits EXPLAIN
check_explain_strict(self, text) ==
    IF self.explain_policy = "DISABLED"
      THEN SecurityViolationError(Msg("EXPLAIN statements are not allowed", "", NoWord))
    ELSE IF UpperHasAnalyze(text)
      THEN SecurityViolationError(Msg("EXPLAIN ANALYZE is not allowed", "", NoWord))
    ELSE NoError

\* the branch of _check_statement_type for a Command that is an EXPLAIN
check_explain(self, text) ==
    IF self.explain_policy = "DISABLED"
      THEN SecurityViolationError(Msg("EXPLAIN statements are not allowed", "", NoWord))
    ELSE IF self.explain_policy = "EXPLAIN_ONLY" /\ UpperHasAnalyze(text)
      THEN SecurityViolationError(Msg("EXPLAIN ANALYZE is not allowed", "", NoWord))
    ELSE NoError

\* the last rule of _check_statement_type, left out
check_other_type_absent(statement) == NoError

\* the last rule of _check_statement_type: neither allowed nor forbidden
check_other_type(statement) ==
    IF ~IsInstance(statement, allowed_types)
       /\ statement.key \notin {"SELECT", "UNION"}
    THEN SecurityViolationError(Msg("Statement type is not allowed", statement.key, NoWord))
    ELSE NoError

check_statement_type(self, statement, text) ==
    IF IsInstance(statement, {"COMMAND"})
      THEN LET cmd_name == Upper(statement.this) IN
           IF cmd_name = kwExplain
             THEN check_explain(self, text)
             ELSE SecurityViolationError(Msg("Command is not allowed", "", cmd_name))
    ELSE IF IsInstance(statement, {"SELECT"}) THEN NoError
    ELSE IF IsInstance(statement, {"UNION"}) THEN NoError
    ELSE IF IsInstance(statement, forbidden_types)
      THEN SecurityViolationError(Msg("Statement type is not allowed", statement.key, NoWord))
    ELSE check_other_type(statement)

\* the first element of seq that satisfies Bad, or none
FirstHit(seq, Bad(_)) ==
    LET hits == { i \in DOMAIN seq : Bad(seq[i]) } IN
    IF hits = {} THEN 0 ELSE CHOOSE i \in hits : \A j \in hits : i <= j

check_blocked_functions(self, statement) ==
    LET nodes == Walk(statement)
        hit   == FirstHit(nodes, LAMBDA n :
                     IsInstance(n, {"FUNC"})
                     /\ Lower(NodeName(n)) \in self.blocked_functions)
    IN IF hit = 0 THEN NoError
       ELSE SecurityViolationError(
                Msg("Function is not allowed", "", Lower(NodeName(nodes[hit]))))

check_blocked_tables(self, statement) ==
    IF self.blocked_tables = {} THEN NoError
    ELSE LET tables == FindAll(statement, {"TABLE"})
             hit    == FirstHit(tables, LAMBDA n :
                           Lower(NodeName(n)) \in self.blocked_tables)
         IN IF hit = 0 THEN NoError
            ELSE SecurityViolationError(
                     Msg("Access to table is blocked", "", Lower(NodeName(tables[hit]))))

\* the verdict of _check_blocked_columns on one column
column_error(self, column) ==
    LET col_name   == Lower(NodeName(column))
        table_name == Lower(column.qual)
    IN IF col_name \in self.blocked_columns
         THEN SecurityViolationError(Msg("Access to column is blocked", "", col_name))
       ELSE IF table_name # NoWord
               /\ Qualified(table_name, col_name) \in self.blocked_columns
         THEN SecurityViolationError(
                  Msg("Access to column is blocked", "", Qualified(table_name, col_name)))
       ELSE NoError

check_blocked_columns(self, statement) ==
    IF self.blocked_columns = {} THEN NoError
    ELSE LET columns == FindAll(statement, {"COLUMN"})
             hit     == FirstHit(columns, LAMBDA n : column_error(self, n) # NoError)
         IN IF hit = 0 THEN NoError ELSE column_error(self, columns[hit])

\* the rule on the number of statements, left out
check_single_absent(text) == NoError

\* the rule on the number of statements, off by one
check_single_lax(text) ==
    IF Len(Parse(text).statements) > 2
    THEN SecurityViolationError(Msg("Multiple SQL statements are not allowed", "", NoWord))
    ELSE NoError

\* the rule on the number of statements
check_single(text) ==
    IF Len(Parse(text).statements) > 1
    THEN SecurityViolationError(Msg("Multiple SQL statements are not allowed", "", NoWord))
    ELSE NoError

\* one step of validate_or_raise and what came of it
Step(rule, outcome) == [rule |-> rule, outcome |-> outcome]
Failed(steps) == steps[Len(steps)].outcome # NoError

check_empty(text) ==
    IF IsBlank(text) THEN SQLParseError(Msg("SQL query is empty", "", NoWord))
    ELSE NoError

\* the parse step with sqlglot's own exception left as it is
check_parse_uncaught(text) ==
    IF ParseOne(text).error
    THEN [error |-> "ParseError", msg |-> Msg("No expression was parsed", "", NoWord)]
    ELSE NoError

check_parse(text) ==
    IF ParseOne(text).error THEN SQLParseError(Msg("Failed to parse SQL", "", NoWord))
    ELSE NoError

\* validate_or_raise with the column deny-list applied before the table
\* deny-list
steps_of_columns_first(self, text) ==
    LET statement == ParseOne(text).statement
        s1 == <<Step("empty", check_empty(text))>>
        s2 == Append(s1, Step("parse", check_parse(text)))
        s3 == Append(s2, Step("single", check_single(text)))
        s4 == Append(s3, Step("statement_type",
                              check_statement_type(self, statement, text)))
        s5 == Append(s4, Step("functions", check_blocked_functions(self, statement)))
        s6 == Append(s5, Step("columns", check_blocked_columns(self, statement)))
        s7 == Append(s6, Step("tables", check_blocked_tables(self, statement)))
    IN IF Failed(s1) THEN s1
       ELSE IF Failed(s2) THEN s2
       ELSE IF Failed(s3) THEN s3
       ELSE IF Failed(s4) THEN s4
       ELSE IF Failed(s5) THEN s5
       ELSE IF Failed(s6) THEN s6
       ELSE s7

\* the steps validate_or_raise takes on a text, in order, up to and
\* including the first that raises
steps_of(self, text) ==
    LET statement == ParseOne(text).statement
        s1 == <<Step("empty", check_empty(text))>>
        s2 == Append(s1, Step("parse", check_parse(text)))
        s3 == Append(s2, Step("single", check_single(text)))
        s4 == Append(s3, Step("statement_type",
                              check_statement_type(self, statement, text)))
        s5 == Append(s4, Step("functions", check_blocked_functions(self, statement)))
        s6 == Append(s5, Step("tables", check_blocked_tables(self, statement)))
        s7 == Append(s6, Step("columns", check_blocked_columns(self, statement)))
    IN IF Failed(s1) THEN s1
       ELSE IF Failed(s2) THEN s2
       ELSE IF Failed(s3) THEN s3
       ELSE IF Failed(s4) THEN s4
       ELSE IF Failed(s5) THEN s5
       ELSE IF Failed(s6) THEN s6
       ELSE s7

\* the exception validate_or_raise ends with, or NoError
validate_or_raise(self, text) ==
    LET steps == steps_of(self, text) IN steps[Len(steps)].outcome

\* an exception validate does not catch leaves it: no pair is returned
Propagates(e) == <<FALSE, NoMsg, e.error>>

\* validate: (is_valid, error_message)
validate(self, text) ==
    LET e == validate_or_raise(self, text) IN
    IF e = NoError THEN <<TRUE, NoMsg>>
    ELSE IF e.error \in {"SecurityViolationError", "SQLParseError"}
      THEN <<FALSE, e.msg>>
    ELSE Propagates(e)

\* the construct a node of the syntax tree is written as
KwOf(key) ==
    CASE key = "TRUNCATETABLE"          -> "TRUNCATE"
      [] key \in {"ANONYMOUS", "UPPER"} -> "CALL"
      [] OTHER                          -> key

RECURSIVE Generate(_)
\* Expression.sql(): the text of a syntax tree.  A Command is its keyword in
\* upper case followed by its string; function names are written in upper
\* case (normalize_functions); identifiers are written as they were read.
Generate(node) ==
    IF node.key = "COMMAND"
      THEN LET s == node.kids[1].raw IN Stmt(s.kw, node.this, s.qual, s.kids)
    ELSE Stmt(KwOf(node.key),
              CASE node.key = "ANONYMOUS" -> Upper(node.this)
                [] node.key = "UPPER"     -> Upper(upper)
                [] OTHER                  -> node.this,
              node.qual,
              [i \in DOMAIN node.kids |-> Generate(node.kids[i])])

\* normalize_sql: the text of the first statement, with the comments the
\* parser attached to it
normalize_sql(text) ==
    LET p == ParseOne(text) IN
    IF p.error
    THEN [error |-> "SQLParseError", sql |-> Text(<<>>, NoWord)]
    ELSE [error |-> "none", sql |-> Text(<<Generate(p.statement)>>, text.comment)]

\* the characters of identifiers in code-point order
CodePoints ==
    <<".", "0", "1", "2", "3", "4", "5", "6", "7", "8", "9">>
    \o UpperAlphabet \o <<"_">> \o LowerAlphabet

ord(ch) == CHOOSE i \in DOMAIN CodePoints : CodePoints[i] = ch

RECURSIVE StrLess(_, _)
\* a < b on strings
StrLess(a, b) ==
    IF b = <<>> THEN FALSE
    ELSE IF a = <<>> THEN TRUE
    ELSE IF Head(a) = Head(b) THEN StrLess(Tail(a), Tail(b))
    ELSE ord(Head(a)) < ord(Head(b))

RECURSIVE sorted(_)
\* sorted(list(tables))
sorted(S) ==
    IF S = {} THEN <<>>
    ELSE LET least == CHOOSE a \in S : \A b \in S \ {a} : StrLess(a, b) IN
         <<least>> \o sorted(S \ {least})

\* extract_tables: the names of the Table nodes of the first statement
extract_tables(text) ==
    LET p == ParseOne(text) IN
    IF p.error
    THEN [error |-> "SQLParseError", tables |-> <<>>]
    ELSE LET found == FindAll(p.statement, {"TABLE"}) IN
         [error |-> "none",
          tables |-> sorted({ NodeName(found[i]) : i \in DOMAIN found })]

----------------------------------------------------------------------------
(* The database and the read-only executor (specification, section 4.4)    *)

TableNames == { users, audit, analyze_log }

InitialDb == [t \in TableNames |-> "initial"]

\* the option of an EXPLAIN asks for execution: ANALYZE, or ANALYSE, in
\* any letter case
HasAnalyzeOption(s) == Upper(s.qual) \in {kwANALYZE, kwANALYSE}

RECURSIVE WrittenTables(_)
\* the tables a statement writes when it is executed: the targets of its
\* data-modifying parts at any depth; an EXPLAIN executes its statement
\* only with the ANALYZE option
WrittenTables(s) ==
    IF s.kw = "EXPLAIN" /\ ~HasAnalyzeOption(s) THEN {}
    ELSE LET below == UNION { WrittenTables(s.kids[i]) : i \in DOMAIN s.kids } IN
         IF s.kw \in ForbiddenKw
         THEN below \cup { Lower(s.kids[i].name) :
                             i \in { j \in DOMAIN s.kids : s.kids[j].kw = "TABLE" } }
         ELSE below

\* the session while a text runs: the tables, whether the transaction in
\* progress is read only, and whether an error has ended the run
RECURSIVE RunItems(_, _)
RunItems(items, st) ==
    IF items = <<>> \/ st.failed THEN st
    ELSE LET s == Head(items) IN
         IF s = Semi THEN RunItems(Tail(items), st)
         ELSE IF s = Garbage THEN [st EXCEPT !.failed = TRUE]
         ELSE IF s.kw = "COMMIT"
           THEN RunItems(Tail(items), [st EXCEPT !.read_only = FALSE])
         ELSE IF WrittenTables(s) # {} /\ st.read_only
           THEN [st EXCEPT !.failed = TRUE]
         ELSE RunItems(Tail(items),
                [st EXCEPT !.tables = [t \in TableNames |->
                     IF t \in WrittenTables(s) THEN "changed" ELSE st.tables[t]]])

\* SET TRANSACTION READ ONLY after BEGIN
begin_transaction(tables) == [tables |-> tables, read_only |-> TRUE, failed |-> FALSE]

\* SQLExecutor.execute: run the text in a read-only transaction; the
\* tables afterwards
execute(text, tables) == RunItems(text.items, begin_transaction(tables)).tables

----------------------------------------------------------------------------
(* The validator in service: one request at a time is validated and, when  *)
(* accepted, executed                                                      *)

BlockedFunctionLists == { {}, {PG_SLEEP}, {PG_SLEEP, upper} }
BlockedTableLists    == { {}, {USERS} }
BlockedColumnLists   == { {}, {Password}, {Qualified(users, password)} }

Configs ==
    { SQLValidator_init(f, t, cl, p) :
        f \in BlockedFunctionLists, t \in BlockedTableLists,
        cl \in BlockedColumnLists, p \in ExplainPolicy }

NoText    == Text(<<>>, NoWord)
NoVerdict == [error |-> "pending", msg |-> NoMsg]
NoResult  == <<FALSE, NoMsg>>

\* the lifespan coroutine before it has started
NoLife ==
    [pc |-> "not_started", todo |-> <<>>, error |-> "none", raised |-> FALSE,
     runs |-> 0, before |-> "None", stop |-> "not_attempted", stop_timeout |-> 0,
     close_calls |-> 0, close_timeout |-> 0, made |-> {}, closed |-> {},
     failed_at |-> "none", pooled |-> {}]

\* a dict that has not been built
NoResponse == [keys |-> {}]

\* no query call is in progress
NoCall ==
    [pc |-> "none", question |-> "", database |-> "None", return_type |-> "",
     orchestrator |-> "None", context |-> "not_opened", invoked |-> 0,
     exception |-> "none", response |-> NoResponse, raised |-> FALSE]

NoEnv == [DATABASE_NAME |-> "None", DATABASE2_NAME |-> "None"]

\* the server process before the lifespan has started: every module global
\* is None (server.py, lines 33-39) and no query call is in progress
ServerOff ==
    /\ env = NoEnv
    /\ _settings = "None"
    /\ _pools = [created |-> FALSE, dict |-> <<>>]
    /\ _schema_cache = "None"
    /\ _metrics = "None"
    /\ _circuit_breaker = "None"
    /\ _rate_limiter = "None"
    /\ _orchestrator = "None"
    /\ life = NoLife
    /\ call = NoCall

\* no circuit breaker has been constructed
NoBreaker ==
    [state |-> "CLOSED", since |-> 0, failure_count |-> 0,
     failure_threshold |-> 0, recovery_timeout |-> 0]
NoProbe == [op |-> "none", was |-> "CLOSED", returned |-> FALSE, streak |-> 0]
\* the breaker has never been OPEN and no failure has been recorded
NoTrip == [at |-> -1, last_failure |-> -1]

BreakerOff ==
    /\ breaker = NoBreaker
    /\ clock = 0
    /\ probe = NoProbe
    /\ tripped = NoTrip

\* no rate limiter has been constructed and no task exists
NoLimiter ==
    [max_concurrent |-> 0, active_count |-> 0, total_requests |-> 0,
     total_rejections |-> 0]

LimiterOff ==
    /\ limiter = NoLimiter
    /\ task = <<>>

\* no SQL validator is in service
ValidatorOff ==
    /\ cfg = SQLValidator_init({}, {}, {}, "DISABLED")
    /\ sql = NoText
    /\ verdict = NoVerdict
    /\ ran = <<>>
    /\ result = NoResult
    /\ db = InitialDb
    /\ phase = "idle"

Init ==
    /\ cfg \in Configs
    /\ sql = NoText
    /\ verdict = NoVerdict
    /\ ran = <<>>
    /\ result = NoResult
    /\ db = InitialDb
    /\ phase = "idle"
    /\ ServerOff
    /\ BreakerOff
    /\ LimiterOff

\* a caller hands a text to validate, which runs validate_or_raise
Validate(text) ==
    /\ phase = "idle"
    /\ sql' = text
    /\ verdict' = validate_or_raise(cfg, text)
    /\ ran' = steps_of(cfg, text)
    /\ result' = validate(cfg, text)
    /\ phase' = "validated"
    /\ UNCHANGED <<cfg, db, serverVars, breakerVars, limiterVars>>

\* an accepted text goes to the executor
Execute ==
    /\ phase = "validated"
    /\ verdict = NoError
    /\ db' = execute(sql, db)
    /\ phase' = "executed"
    /\ UNCHANGED <<cfg, sql, verdict, ran, result, serverVars, breakerVars, limiterVars>>

\* the request ends: rejected, or executed
Return ==
    /\ \/ phase = "executed"
       \/ phase = "validated" /\ verdict # NoError
    /\ sql' = NoText
    /\ verdict' = NoVerdict
    /\ ran' = <<>>
    /\ result' = NoResult
    /\ phase' = "idle"
    /\ UNCHANGED <<cfg, db, serverVars, breakerVars, limiterVars>>

NextValidator ==
    \/ \E text \in Texts : Validate(text)
    \/ Execute
    \/ Return

SpecValidator == Init /\ [][NextValidator]_vars
----------------------------------------------------------------------------
(* The server process: the lifespan and the query tool (server.py)         *)

MaxRuns == 2    \* times the lifespan is entered in one process

\* what the process environment may hold for the two database names
Environments ==
    [DATABASE_NAME : {"None", "app"}, DATABASE2_NAME : {"None", "app", "crm"}]

\* os.getenv(name, default)
getenv(name, default) == IF env[name] = "None" THEN default ELSE env[name]

\* the registry: _pools is None, or a dict from database name to pool
NoRegistry == [created |-> FALSE, dict |-> <<>>]
Registry(d) == [created |-> TRUE, dict |-> d]

\* _pools[name] = pool
DictSet(d, name, pool) ==
    [k \in DOMAIN d \cup {name} |-> IF k = name THEN pool ELSE d[k]]

\* the values of a dict
DictValues(d) == { d[k] : k \in DOMAIN d }

\* the pool the n-th create_pool call of a run returns
Pool(run, n) == [run |-> run, no |-> n]

\* the database names the environment configures a pool for
ConfiguredNames ==
    {getenv("DATABASE_NAME", "postgres")}
      \cup (IF env.DATABASE2_NAME # "None" THEN {env.DATABASE2_NAME} ELSE {})

\* the steps of startup, each of which may raise
StartupSteps ==
    {"settings", "logging", "registry", "pool1", "pool2", "cache", "metrics",
     "components", "breaker", "limiter", "orchestrator"}

\* the finally block with the pools closed first
finally_steps_reversed == <<"close_pools", "stop_refresh">>

\* the finally block: what it does, in order
finally_steps == <<"stop_refresh", "close_pools">>

\* async with lifespan(app): the coroutine is entered
LifespanStart ==
    /\ life.pc \in {"not_started", "done"}
    /\ life.runs < MaxRuns
    /\ life' = [NoLife EXCEPT !.pc = "settings", !.runs = life.runs + 1,
                              !.before = _orchestrator,
                              !.pooled = life.pooled]
    /\ UNCHANGED <<validatorVars, breakerVars, limiterVars, env, _settings, _pools, _schema_cache, _metrics,
                   _circuit_breaker, _rate_limiter, _orchestrator, call>>

\* 1. _settings = Settings()
LoadSettings ==
    /\ life.pc = "settings"
    /\ _settings' = "Settings"
    /\ life' = [life EXCEPT !.pc = "logging"]
    /\ UNCHANGED <<validatorVars, breakerVars, limiterVars, env, _pools, _schema_cache, _metrics, _circuit_breaker,
                   _rate_limiter, _orchestrator, call>>

\* 2. configure_logging(...)
ConfigureLogging ==
    /\ life.pc = "logging"
    /\ life' = [life EXCEPT !.pc = "registry"]
    /\ UNCHANGED <<validatorVars, breakerVars, limiterVars, env, _settings, _pools, _schema_cache, _metrics,
                   _circuit_breaker, _rate_limiter, _orchestrator, call>>

\* 3. _pools = {}
CreateRegistry ==
    /\ life.pc = "registry"
    /\ _pools' = Registry(<<>>)
    /\ life' = [life EXCEPT !.pc = "pool1"]
    /\ UNCHANGED <<validatorVars, breakerVars, limiterVars, env, _settings, _schema_cache, _metrics, _circuit_breaker,
                   _rate_limiter, _orchestrator, call>>

\* pool1 = await create_pool(db1_config); _pools[db1_config.name] = pool1
CreatePool1 ==
    /\ life.pc = "pool1"
    /\ LET pool1 == Pool(life.runs, 1) IN
       /\ _pools' = Registry(DictSet(_pools.dict, getenv("DATABASE_NAME", "postgres"), pool1))
       /\ life' = [life EXCEPT
                     !.made = @ \cup {pool1},
                     !.pooled = @ \cup {getenv("DATABASE_NAME", "postgres")},
                     !.pc = IF env.DATABASE2_NAME # "None" THEN "pool2" ELSE "cache"]
    /\ UNCHANGED <<validatorVars, breakerVars, limiterVars, env, _settings, _schema_cache, _metrics, _circuit_breaker,
                   _rate_limiter, _orchestrator, call>>

\* if os.getenv("DATABASE2_NAME"): pool2 = await create_pool(db2_config);
\* _pools[db2_config.name] = pool2
CreatePool2 ==
    /\ life.pc = "pool2"
    /\ LET pool2 == Pool(life.runs, 2) IN
       /\ _pools' = Registry(DictSet(_pools.dict, env.DATABASE2_NAME, pool2))
       /\ life' = [life EXCEPT !.made = @ \cup {pool2},
                                 !.pooled = @ \cup {env.DATABASE2_NAME},
                                 !.pc = "cache"]
    /\ UNCHANGED <<validatorVars, breakerVars, limiterVars, env, _settings, _schema_cache, _metrics, _circuit_breaker,
                   _rate_limiter, _orchestrator, call>>

\* 4. _schema_cache = SchemaCache(_settings.cache)
CreateSchemaCache ==
    /\ life.pc = "cache"
    /\ _schema_cache' = "SchemaCache"
    /\ life' = [life EXCEPT !.pc = "metrics"]
    /\ UNCHANGED <<validatorVars, breakerVars, limiterVars, env, _settings, _pools, _metrics, _circuit_breaker,
                   _rate_limiter, _orchestrator, call>>

\* 5. _metrics = MetricsCollector(), and the metrics HTTP server
CreateMetrics ==
    /\ life.pc = "metrics"
    /\ _metrics' = "MetricsCollector"
    /\ life' = [life EXCEPT !.pc = "components"]
    /\ UNCHANGED <<validatorVars, breakerVars, limiterVars, env, _settings, _pools, _schema_cache, _circuit_breaker,
                   _rate_limiter, _orchestrator, call>>

\* 6. generator, validator, executors, result validator (locals)
CreateComponents ==
    /\ life.pc = "components"
    /\ life' = [life EXCEPT !.pc = "breaker"]
    /\ UNCHANGED <<validatorVars, breakerVars, limiterVars, env, _settings, _pools, _schema_cache, _metrics,
                   _circuit_breaker, _rate_limiter, _orchestrator, call>>

\* 7. _circuit_breaker = CircuitBreaker(...)
CreateCircuitBreaker ==
    /\ life.pc = "breaker"
    /\ _circuit_breaker' = "CircuitBreaker"
    /\ life' = [life EXCEPT !.pc = "limiter"]
    /\ UNCHANGED <<validatorVars, breakerVars, limiterVars, env, _settings, _pools, _schema_cache, _metrics,
                   _rate_limiter, _orchestrator, call>>

\* _rate_limiter = MultiRateLimiter(query_limit=10, llm_limit=5)
CreateRateLimiter ==
    /\ life.pc = "limiter"
    /\ _rate_limiter' = "MultiRateLimiter"
    /\ life' = [life EXCEPT !.pc = "orchestrator"]
    /\ UNCHANGED <<validatorVars, breakerVars, limiterVars, env, _settings, _pools, _schema_cache, _metrics,
                   _circuit_breaker, _orchestrator, call>>

\* the orchestrator published before the circuit breaker and the rate
\* limiter exist
CreateOrchestrator_early ==
    /\ life.pc = "breaker"
    /\ _orchestrator' = "QueryOrchestrator"
    /\ life' = [life EXCEPT !.pc = "breaker"]
    /\ UNCHANGED <<validatorVars, breakerVars, limiterVars, env, _settings, _pools, _schema_cache, _metrics,
                   _circuit_breaker, _rate_limiter, call>>

\* 8. _orchestrator = QueryOrchestrator(...); then yield
CreateOrchestrator ==
    /\ life.pc = "orchestrator"
    /\ _orchestrator' = "QueryOrchestrator"
    /\ life' = [life EXCEPT !.pc = "serving"]
    /\ UNCHANGED <<validatorVars, breakerVars, limiterVars, env, _settings, _pools, _schema_cache, _metrics,
                   _circuit_breaker, _rate_limiter, call>>

\* a startup step raises: the except block logs and re-raises, and the
\* finally block is entered with the exception pending
StartupFails ==
    /\ life.pc \in StartupSteps
    /\ life' = [life EXCEPT !.pc = "finally", !.todo = finally_steps,
                            !.error = "Exception", !.failed_at = life.pc]
    /\ UNCHANGED <<validatorVars, breakerVars, limiterVars, env, _settings, _pools, _schema_cache, _metrics,
                   _circuit_breaker, _rate_limiter, _orchestrator, call>>

\* the with-block of the caller ends: it returns, or an exception or a
\* cancellation is thrown into the coroutine at the yield
ServerStops(how) ==
    /\ life.pc = "serving"
    /\ life' = [life EXCEPT !.pc = "finally", !.todo = finally_steps,
                            !.error = IF how = "return" THEN "none" ELSE how]
    /\ UNCHANGED <<validatorVars, breakerVars, limiterVars, env, _settings, _pools, _schema_cache, _metrics,
                   _circuit_breaker, _rate_limiter, _orchestrator, call>>

\* if _schema_cache is not None:
\*     await asyncio.wait_for(_schema_cache.stop_auto_refresh(), timeout=3.0)
StopRefresh ==
    /\ life.pc = "finally"
    /\ life.todo # <<>> /\ Head(life.todo) = "stop_refresh"
    /\ life' = IF _schema_cache # "None"
               THEN [life EXCEPT !.pc = "stopping", !.stop = "in_progress",
                                 !.stop_timeout = 3]
               ELSE [life EXCEPT !.todo = Tail(@)]
    /\ UNCHANGED <<validatorVars, breakerVars, limiterVars, env, _settings, _pools, _schema_cache, _metrics,
                   _circuit_breaker, _rate_limiter, _orchestrator, call>>

\* the attempt ends: it returned, wait_for timed out, it raised (all three
\* logged), or the wait was cancelled, which no handler of the block catches
StopRefreshEnds(outcome) ==
    /\ life.pc = "stopping"
    /\ life' = IF outcome = "cancelled"
               THEN [life EXCEPT !.pc = "done", !.stop = outcome,
                                 !.error = "CancelledError", !.raised = TRUE]
               ELSE [life EXCEPT !.pc = "finally", !.stop = outcome,
                                 !.todo = Tail(@)]
    /\ UNCHANGED <<validatorVars, breakerVars, limiterVars, env, _settings, _pools, _schema_cache, _metrics,
                   _circuit_breaker, _rate_limiter, _orchestrator, call>>

\* if _pools is not None: await close_pools(_pools, timeout=5.0);
\* an exception of close_pools is logged
ClosePools ==
    /\ life.pc = "finally"
    /\ life.todo # <<>> /\ Head(life.todo) = "close_pools"
    /\ life' = IF _pools.created
               THEN [life EXCEPT !.todo = Tail(@), !.close_calls = @ + 1,
                                 !.close_timeout = 5,
                                 !.closed = @ \cup DictValues(_pools.dict)]
               ELSE [life EXCEPT !.todo = Tail(@)]
    /\ UNCHANGED <<validatorVars, breakerVars, limiterVars, env, _settings, _pools, _schema_cache, _metrics,
                   _circuit_breaker, _rate_limiter, _orchestrator, call>>

\* the finally block is done: the coroutine returns, or the pending
\* exception goes on to the caller
LifespanExit ==
    /\ life.pc = "finally"
    /\ life.todo = <<>>
    /\ life' = [life EXCEPT !.pc = "done", !.raised = (life.error # "none")]
    /\ UNCHANGED <<validatorVars, breakerVars, limiterVars, env, _settings, _pools, _schema_cache, _metrics,
                   _circuit_breaker, _rate_limiter, _orchestrator, call>>

\* the arguments a host may pass to the tool
Questions   == {"", "How many users are there?"}
Databases   == {"None", "app"}
ReturnTypes == {"sql", "result", "rows"}

\* a python dict {key: value} with one entry, and None
Details(key, value) == [key |-> key, value |-> value]
NoDetails == Details("None", "")

ErrorObject(code, message, details) ==
    [code |-> code, message |-> message, details |-> details]
NoErrorObject == ErrorObject("", "", NoDetails)

\* the dicts the tool builds itself: {"success": False, "error": {...}}
FacadeError(code, message, details) ==
    [keys |-> {"success", "error"}, success |-> FALSE,
     error |-> ErrorObject(code, message, details)]

\* the error codes the orchestrator reports (specification, section 6)
OrchestratorCodes == {"RATE_LIMITED", "SECURITY_VIOLATION", "DB_ERROR"}

\* QueryResponse.to_dict() (specification, section 6)
to_dict(success, code) ==
    [keys |-> {"success", "confidence", "tokens_used"}
              \cup (IF success THEN {"generated_sql", "data"} ELSE {"error"}),
     success |-> success,
     error |-> IF success THEN NoErrorObject
               ELSE ErrorObject(code, "orchestrator failure", NoDetails)]

\* the test of line 405, never true
not_initialized_never(orchestrator) == FALSE

\* if _orchestrator is None
not_initialized(orchestrator) == orchestrator = "None"

\* the test of line 416, never true
invalid_return_type_never(return_type) == FALSE

\* if return_type not in ("sql", "result")
invalid_return_type(return_type) == return_type \notin {"sql", "result"}

\* no handler: the exception leaves query
except_Exception_absent(c, e) ==
    [c EXCEPT !.pc = "returned", !.raised = TRUE,
              !.context = IF @ = "opened" THEN "closed" ELSE @]

\* except Exception as e: return the INVALID_REQUEST dict; the request
\* context, if it was entered, has been left
except_Exception(c, e) ==
    [c EXCEPT !.pc = "returned",
              !.context = IF @ = "opened" THEN "closed" ELSE @,
              !.response = FacadeError("INVALID_REQUEST",
                                       "Invalid request parameters",
                                       Details("error", e))]

\* an exception e is raised inside the try block of query
Raise(c, e) == except_Exception([c EXCEPT !.exception = e], e)

\* query(question, database, return_type), up to its first await
QueryCall(question, database, return_type) ==
    /\ call.pc = "none"
    /\ LET c == [NoCall EXCEPT !.question = question, !.database = database,
                               !.return_type = return_type,
                               !.orchestrator = _orchestrator]
       IN call' =
            IF not_initialized(_orchestrator)
              THEN [c EXCEPT !.pc = "returned",
                             !.response = FacadeError("SERVER_NOT_INITIALIZED",
                                              "Server not initialized properly",
                                              NoDetails)]
            ELSE IF invalid_return_type(return_type)
              THEN [c EXCEPT !.pc = "returned",
                             !.response = FacadeError("INVALID_PARAMETER",
                                              "Invalid return_type",
                                              Details("return_type", return_type))]
            ELSE [c EXCEPT !.pc = "entering"]
    /\ UNCHANGED <<validatorVars, breakerVars, limiterVars, env, _settings, _pools, _schema_cache, _metrics,
                   _circuit_breaker, _rate_limiter, _orchestrator, life>>

\* async with request_context() as request_id
QueryEnterContext(ok) ==
    /\ call.pc = "entering"
    /\ call' = IF ok THEN [call EXCEPT !.pc = "building", !.context = "opened"]
               ELSE Raise(call, "Exception")
    /\ UNCHANGED <<validatorVars, breakerVars, limiterVars, env, _settings, _pools, _schema_cache, _metrics,
                   _circuit_breaker, _rate_limiter, _orchestrator, life>>

\* request = QueryRequest(question=..., database=...,
\*                        return_type=ReturnType(return_type))
QueryBuildRequest(ok) ==
    /\ call.pc = "building"
    /\ call' = IF call.return_type \notin {"sql", "result"}
                 THEN Raise(call, "ValueError")
               ELSE IF ~ok THEN Raise(call, "ValidationError")
               ELSE [call EXCEPT !.pc = "executing"]
    /\ UNCHANGED <<validatorVars, breakerVars, limiterVars, env, _settings, _pools, _schema_cache, _metrics,
                   _circuit_breaker, _rate_limiter, _orchestrator, life>>

\* response = await _orchestrator.execute_query(request)
QueryExecute(outcome, code) ==
    /\ call.pc = "executing"
    /\ call' = IF _orchestrator = "None"
                 THEN Raise(call, "AttributeError")
               ELSE IF outcome = "raises"
                 THEN Raise([call EXCEPT !.invoked = @ + 1], "Exception")
               ELSE [call EXCEPT !.pc = "serialising", !.invoked = @ + 1,
                                 !.response = to_dict(outcome = "success", code)]
    /\ UNCHANGED <<validatorVars, breakerVars, limiterVars, env, _settings, _pools, _schema_cache, _metrics,
                   _circuit_breaker, _rate_limiter, _orchestrator, life>>

\* result = response.to_dict(); return result
QuerySerialise(ok) ==
    /\ call.pc = "serialising"
    /\ call' = IF ok THEN [call EXCEPT !.pc = "returned", !.context = "closed"]
               ELSE Raise([call EXCEPT !.response = NoResponse],
                                     "Exception")
    /\ UNCHANGED <<validatorVars, breakerVars, limiterVars, env, _settings, _pools, _schema_cache, _metrics,
                   _circuit_breaker, _rate_limiter, _orchestrator, life>>

\* the host has the dict (or the exception) of the call
QueryReturn ==
    /\ call.pc = "returned"
    /\ call' = NoCall
    /\ UNCHANGED <<validatorVars, breakerVars, limiterVars, env, _settings, _pools, _schema_cache, _metrics,
                   _circuit_breaker, _rate_limiter, _orchestrator, life>>

InitServer ==
    /\ env \in Environments
    /\ _settings = "None"
    /\ _pools = NoRegistry
    /\ _schema_cache = "None"
    /\ _metrics = "None"
    /\ _circuit_breaker = "None"
    /\ _rate_limiter = "None"
    /\ _orchestrator = "None"
    /\ life = NoLife
    /\ call = NoCall
    /\ ValidatorOff
    /\ BreakerOff
    /\ LimiterOff

NextServer ==
    \/ LifespanStart
    \/ LoadSettings
    \/ ConfigureLogging
    \/ CreateRegistry
    \/ CreatePool1
    \/ CreatePool2
    \/ CreateSchemaCache
    \/ CreateMetrics
    \/ CreateComponents
    \/ CreateCircuitBreaker
    \/ CreateRateLimiter
    \/ CreateOrchestrator
    \/ StartupFails
    \/ \E how \in {"return", "Exception", "CancelledError"} : ServerStops(how)
    \/ StopRefresh
    \/ \E outcome \in {"stopped", "timed_out", "failed", "cancelled"} :
          StopRefreshEnds(outcome)
    \/ ClosePools
    \/ LifespanExit
    \/ \E q \in Questions, d \in Databases, rt \in ReturnTypes : QueryCall(q, d, rt)
    \/ \E ok \in BOOLEAN : QueryEnterContext(ok)
    \/ \E ok \in BOOLEAN : QueryBuildRequest(ok)
    \/ \E outcome \in {"success", "failure", "raises"}, code \in OrchestratorCodes :
          QueryExecute(outcome, code)
    \/ \E ok \in BOOLEAN : QuerySerialise(ok)
    \/ QueryReturn

SpecServer == InitServer /\ [][NextServer]_vars
----------------------------------------------------------------------------
(* The circuit breaker (specification, sections 3 and 8; the calls of      *)
(* test_resilience_observability.py)                                       *)

MaxThreshold == 3    \* largest failure_threshold
MaxTimeout   == 2    \* largest recovery_timeout, in ticks of the clock
MaxClock     == 5    \* the clock stops here

\* CircuitBreaker(failure_threshold, recovery_timeout): CLOSED, no failures
CircuitBreaker(failure_threshold, recovery_timeout) ==
    [state |-> "CLOSED", since |-> 0, failure_count |-> 0,
     failure_threshold |-> failure_threshold,
     recovery_timeout |-> recovery_timeout]

\* OPEN since T, the timeout taken as elapsed one tick early
Elapsed_early(self, now) ==
    self.state = "OPEN" /\ now - self.since + 1 >= self.recovery_timeout

\* OPEN since T, and now - T >= recovery_timeout
Elapsed(self, now) ==
    self.state = "OPEN" /\ now - self.since >= self.recovery_timeout

\* breaker.state: an OPEN breaker whose recovery_timeout has elapsed is
\* HALF_OPEN
State(self, now) == IF Elapsed(self, now) THEN "HALF_OPEN" ELSE self.state

\* CLOSED -> OPEN with the threshold compared by > instead of >=
record_failure_late(self, now) ==
    LET st == State(self, now) IN
    IF st = "HALF_OPEN"
      THEN [self EXCEPT !.state = "OPEN", !.since = now]
    ELSE IF st = "CLOSED"
      THEN IF self.failure_count + 1 > self.failure_threshold
             THEN [self EXCEPT !.state = "OPEN", !.since = now,
                               !.failure_count = @ + 1]
             ELSE [self EXCEPT !.failure_count = @ + 1]
    ELSE self

\* record_failure: HALF_OPEN -> OPEN on one failure; in CLOSED the failure
\* is counted, and CLOSED -> OPEN at failure_count >= failure_threshold
record_failure(self, now) ==
    LET st == State(self, now) IN
    IF st = "HALF_OPEN"
      THEN [self EXCEPT !.state = "OPEN", !.since = now]
    ELSE IF st = "CLOSED"
      THEN IF self.failure_count + 1 >= self.failure_threshold
             THEN [self EXCEPT !.state = "OPEN", !.since = now,
                               !.failure_count = @ + 1]
             ELSE [self EXCEPT !.failure_count = @ + 1]
    ELSE self

\* a success closing the breaker from any state
record_success_any(self, now) ==
    [self EXCEPT !.state = "CLOSED", !.failure_count = 0]

\* record_success: HALF_OPEN -> CLOSED on one success; in CLOSED the run of
\* failures is over
record_success(self, now) ==
    LET st == State(self, now) IN
    IF st \in {"HALF_OPEN", "CLOSED"}
      THEN [self EXCEPT !.state = "CLOSED", !.failure_count = 0]
    ELSE self

\* allow_request: the breaker afterwards, and what is returned
allow_request(self, now) ==
    LET st == State(self, now) IN
    IF st = "HALF_OPEN" THEN <<[self EXCEPT !.state = "HALF_OPEN"], TRUE>>
    ELSE IF st = "CLOSED" THEN <<self, TRUE>>
    ELSE <<self, FALSE>>

\* what the last call on the breaker was, the state it found, what it
\* returned, and the record_failure calls in a row since the breaker was
\* last CLOSED without a failure
Probe(op, was, returned, streak) ==
    [op |-> op, was |-> was, returned |-> returned, streak |-> streak]

InitBreaker ==
    /\ \E n \in 1..MaxThreshold, t \in 1..MaxTimeout :
          breaker = CircuitBreaker(n, t)
    /\ clock = 0
    /\ probe = Probe("none", "CLOSED", FALSE, 0)
    /\ tripped = NoTrip
    /\ ValidatorOff
    /\ ServerOff
    /\ LimiterOff

RecordFailure ==
    /\ breaker' = record_failure(breaker, clock)
    /\ probe' = Probe("record_failure", State(breaker, clock), FALSE,
                      IF State(breaker, clock) = "CLOSED"
                      THEN probe.streak + 1 ELSE probe.streak)
    /\ tripped' = [at |-> IF State(breaker, clock) # "OPEN"
                                /\ State(breaker', clock) = "OPEN"
                             THEN clock ELSE tripped.at,
                    last_failure |-> clock]
    /\ UNCHANGED <<clock, validatorVars, serverVars, limiterVars>>

RecordSuccess ==
    /\ breaker' = record_success(breaker, clock)
    /\ probe' = Probe("record_success", State(breaker, clock), FALSE,
                      IF State(breaker, clock) = "OPEN" THEN probe.streak ELSE 0)
    /\ UNCHANGED <<clock, tripped, validatorVars, serverVars, limiterVars>>

AllowRequest ==
    /\ breaker' = allow_request(breaker, clock)[1]
    /\ probe' = Probe("allow_request", State(breaker, clock),
                      allow_request(breaker, clock)[2], probe.streak)
    /\ UNCHANGED <<clock, tripped, validatorVars, serverVars, limiterVars>>

\* time passes
Tick ==
    /\ clock < MaxClock
    /\ clock' = clock + 1
    /\ probe' = [probe EXCEPT !.op = "sleep"]
    /\ UNCHANGED <<breaker, tripped, validatorVars, serverVars, limiterVars>>

NextBreaker ==
    \/ RecordFailure
    \/ RecordSuccess
    \/ AllowRequest
    \/ Tick

SpecBreaker == InitBreaker /\ [][NextBreaker]_vars

----------------------------------------------------------------------------
(* The rate limiter (specification, sections 3 and 8; the calls of         *)
(* test_resilience_observability.py)                                       *)

MaxConcurrent == 2    \* largest max_concurrent
NumTasks      == 3    \* tasks using the limiter at the same time
MaxRequests   == 5    \* entries into the limiter's scope that are followed

Tasks == 1..NumTasks

\* RateLimiter(max_concurrent): nothing active, nothing counted
RateLimiter(max_concurrent) ==
    [max_concurrent |-> max_concurrent, active_count |-> 0,
     total_requests |-> 0, total_rejections |-> 0]

\* a limiter that takes every slot as free
slot_free_always(self) == TRUE

\* a slot is free: active < max
slot_free(self) == self.active_count < self.max_concurrent

InitLimiter ==
    /\ \E m \in 1..MaxConcurrent : limiter = RateLimiter(m)
    /\ task = [t \in Tasks |-> "outside"]
    /\ ValidatorOff
    /\ ServerOff
    /\ BreakerOff

\* async with limiter(): the request is counted and the task asks for a slot
Enter(t) ==
    /\ task[t] = "outside"
    /\ limiter.total_requests < MaxRequests
    /\ limiter' = [limiter EXCEPT !.total_requests = @ + 1]
    /\ task' = [task EXCEPT ![t] = "waiting"]
    /\ UNCHANGED <<validatorVars, serverVars, breakerVars>>

\* the task is given a free slot and runs the body
Acquire(t) ==
    /\ task[t] = "waiting"
    /\ slot_free(limiter)
    /\ limiter' = [limiter EXCEPT !.active_count = @ + 1]
    /\ task' = [task EXCEPT ![t] = "inside"]
    /\ UNCHANGED <<validatorVars, serverVars, breakerVars>>

\* no slot is free and the task is denied: the rejection is counted
Reject(t) ==
    /\ task[t] = "waiting"
    /\ ~slot_free(limiter)
    /\ limiter' = [limiter EXCEPT !.total_rejections = @ + 1]
    /\ task' = [task EXCEPT ![t] = "outside"]
    /\ UNCHANGED <<validatorVars, serverVars, breakerVars>>

\* the body ends, normally or by an exception: the slot is given back
Leave(t) ==
    /\ task[t] = "inside"
    /\ limiter' = [limiter EXCEPT !.active_count = @ - 1]
    /\ task' = [task EXCEPT ![t] = "outside"]
    /\ UNCHANGED <<validatorVars, serverVars, breakerVars>>

NextLimiter ==
    \/ \E t \in Tasks : Enter(t)
    \/ \E t \in Tasks : Acquire(t)
    \/ \E t \in Tasks : Reject(t)
    \/ \E t \in Tasks : Leave(t)

SpecLimiter == InitLimiter /\ [][NextLimiter]_vars

----------------------------------------------------------------------------
(* What a text means, read off the text itself                             *)

\* the statements written in a text
StatementsOf(text) == SelectSeq(text.items, LAMBDA it : it # Semi)

\* the text is exactly one readable statement
IsSingle(text) == Len(text.items) = 1 /\ text.items[1] \notin {Semi, Garbage}

RECURSIVE SrcNodes(_)
\* a statement and all its parts
SrcNodes(s) == {s} \cup UNION { SrcNodes(s.kids[i]) : i \in DOMAIN s.kids }

\* the nodes of the syntax trees the parser yields for a text
AstNodes(text) ==
    LET p == Parse(text) IN
    UNION { { Walk(p.statements[i])[j] : j \in DOMAIN Walk(p.statements[i]) } :
            i \in DOMAIN p.statements }

\* a syntax-tree node of a kind in the forbidden set
IsForbiddenNode(n) ==
    \/ n.key \in { KeyOf(kw) : kw \in ForbiddenKw \ CommandKw }
    \/ n.key = "COMMAND" /\ n.this \in { kwVACUUM }

RECURSIVE IsReadQuery(_)
\* a SELECT, or a UNION / INTERSECT / EXCEPT over selects, whose CTEs and
\* subqueries are such queries too
IsReadQuery(s) ==
    /\ s.kw \in {"SELECT"} \cup SetOpKw
    /\ \A i \in DOMAIN s.kids :
          \/ s.kids[i].kw \in {"STAR", "LITERAL", "COLUMN", "TABLE", "CALL"}
          \/ s.kids[i].kw \in {"CTE", "SUBQUERY"} /\ IsReadQuery(s.kids[i].kids[1])
          \/ s.kw \in SetOpKw /\ IsReadQuery(s.kids[i])

\* the names of the tables a statement refers to, anywhere in it
RefTables(s) == { n.name : n \in { m \in SrcNodes(s) : m.kw = "TABLE" } }

\* the names of the functions a statement calls, anywhere in it
RefFunctions(s) == { n.name : n \in { m \in SrcNodes(s) : m.kw = "CALL" } }

\* the item a SELECT reads from
FromOf(s) ==
    LET froms == { i \in DOMAIN s.kids : s.kids[i].kw \in {"TABLE", "SUBQUERY"} } IN
    IF froms = {} THEN Star ELSE s.kids[CHOOSE i \in froms : TRUE]

\* the table a column belongs to: the table of the enclosing SELECT when the
\* column is unqualified or qualified by that table's name or alias
OwnerOf(col, from) ==
    IF from.kw = "TABLE"
       /\ (col.qual = NoWord \/ col.qual = from.qual
           \/ Lower(col.qual) = Lower(from.name))
    THEN from.name
    ELSE col.qual

RECURSIVE ColumnRefs(_, _)
\* the column references of a statement, each with the table it belongs to
ColumnRefs(s, from) ==
    IF s.kw = "COLUMN" THEN { [name |-> s.name, owner |-> OwnerOf(s, from)] }
    ELSE LET scope == IF s.kw = "SELECT" THEN FromOf(s) ELSE from IN
         UNION { ColumnRefs(s.kids[i], scope) : i \in DOMAIN s.kids }

RefColumns(s) == ColumnRefs(s, Star)

\* a column reference that the block-list names, bare or as table.column
IsBlockedColumn(self, ref) ==
    \/ Lower(ref.name) \in self.blocked_columns
    \/ ref.owner # NoWord
       /\ Qualified(Lower(ref.owner), Lower(ref.name)) \in self.blocked_columns

\* the statement refers to nothing the block-lists name
NoBlockedRefs(self, s) ==
    /\ \A t \in RefTables(s) : Lower(t) \notin self.blocked_tables
    /\ \A f \in RefFunctions(s) : Lower(f) \notin self.blocked_functions
    /\ \A ref \in RefColumns(s) : ~IsBlockedColumn(self, ref)

\* the SQL name of the function a syntax-tree node calls
FuncSqlName(n) == IF n.key = "ANONYMOUS" THEN n.this ELSE Lower(CHOOSE f \in TypedFuncs : TypedKey(f) = n.key)

Validated == phase # "idle"
Accepted  == Validated /\ result[1]
Rejected  == Validated /\ ~result[1]

\* the root of the syntax tree of the first statement
Root == ParseOne(sql).statement
Parsed == Validated /\ ~IsBlank(sql) /\ ~ParseOne(sql).error
IsExplainCommand(n) == n.key = "COMMAND" /\ n.this = kwExplain

\* the outcome of a step of validate_or_raise on sql; NoVerdict if not taken
OutcomeOf(rule) ==
    LET at == { i \in DOMAIN ran : ran[i].rule = rule } IN
    IF at = {} THEN NoVerdict ELSE ran[CHOOSE i \in at : TRUE].outcome

----------------------------------------------------------------------------
(* Claims                                                                  *)

\* C1: a text whose syntax tree holds, at any depth, a node of kind INSERT,
\* UPDATE, DELETE, CREATE, DROP, ALTER, GRANT, REVOKE, TRUNCATE, VACUUM or
\* COPY is rejected: validate_or_raise raises and validate returns
\* is_valid = False.
C1_ForbiddenNodeRejected ==
    (Validated /\ \E n \in AstNodes(sql) : IsForbiddenNode(n))
        => (verdict # NoError /\ result[1] = FALSE)

\* C2: executing accepted texts through the read-only executor never
\* changes the contents of any table.
C2_DatabaseUnchanged == db = InitialDb

\* an accepted text that writes a table when run has gone through the executor
C2_Witness ==
    /\ phase = "executed"
    /\ \E i \in DOMAIN sql.items : WrittenTables(sql.items[i]) # {}

\* C3 as stated: a text that the parser splits into more than one statement,
\* or that holds a separator ';', is rejected.
C3_AnySeparatorRejected ==
    (Validated /\ (Len(Parse(sql).statements) > 1
                   \/ \E i \in DOMAIN sql.items : sql.items[i] = Semi))
        => Rejected

\* C3 amended: a text that the parser splits into more than one statement is
\* rejected, and an accepted text holds exactly one statement; a ';' after
\* the last statement is not by itself a reason to reject.
C3_MultipleStatementsRejected ==
    /\ (Validated /\ Len(Parse(sql).statements) > 1) => Rejected
    /\ Accepted => Len(StatementsOf(sql)) = 1

\* a text of several statements has been rejected for being several
C3_Witness ==
    /\ phase = "validated"
    /\ Len(StatementsOf(sql)) > 1
    /\ verdict.msg.text = "Multiple SQL statements are not allowed"
\* C4: a single statement that is a SELECT, a UNION, INTERSECT or EXCEPT
\* over selects, or a select with a CTE whose body is a select, and that
\* refers to no blocked function, table or column, is accepted:
\* validate returns (True, None).
C4_ReadQueryAccepted ==
    (Validated /\ IsSingle(sql) /\ IsReadQuery(sql.items[1])
               /\ NoBlockedRefs(cfg, sql.items[1]))
        => result = <<TRUE, NoMsg>>

C6_RejectedIffAnalyzeOption ==
    (Validated /\ IsSingle(sql) /\ sql.items[1].kw = "EXPLAIN"
               /\ cfg.explain_policy = "EXPLAIN_ONLY")
        => (Rejected <=> HasAnalyzeOption(sql.items[1]))

\* C7: under DISABLED every EXPLAIN statement is rejected with
\* SecurityViolationError; under EXPLAIN_ANALYZE every EXPLAIN statement,
\* with or without ANALYZE, passes the statement-kind rule.
C7_DisabledAndExplainAnalyze ==
    (Parsed /\ IsExplainCommand(Root)) =>
      /\ cfg.explain_policy = "DISABLED"
            => (verdict.error = "SecurityViolationError" /\ result[1] = FALSE)
      /\ (cfg.explain_policy = "EXPLAIN_ANALYZE" /\ IsSingle(sql))
            => OutcomeOf("statement_type") = NoError

\* an EXPLAIN ANALYZE has passed under EXPLAIN_ANALYZE
C7_Witness ==
    /\ phase = "validated"
    /\ IsSingle(sql) /\ sql.items[1].kw = "EXPLAIN"
    /\ Upper(sql.items[1].qual) = kwANALYZE
    /\ cfg.explain_policy = "EXPLAIN_ANALYZE"
    /\ OutcomeOf("statement_type") = NoError

\* C8: no table an accepted text refers to, in FROM, a subquery, a CTE, a
\* set-operation branch or the statement under an admitted EXPLAIN, has a
\* lower-cased name in blocked_tables.
C8_NoBlockedTableAccepted ==
    Accepted =>
      \A i \in DOMAIN sql.items : \A t \in RefTables(sql.items[i]) :
          Lower(t) \notin cfg.blocked_tables

\* C9: no column reference of an accepted text has a lower-cased bare name
\* in blocked_columns, and no reference to a column of table T has its
\* lower-cased T.column form in blocked_columns.
C9_NoBlockedColumnAccepted ==
    Accepted =>
      \A i \in DOMAIN sql.items : \A ref \in RefColumns(sql.items[i]) :
          ~IsBlockedColumn(cfg, ref)

\* C10: no function call at any depth of the syntax tree of an accepted
\* text has a lower-cased function name in blocked_functions.
C10_NoBlockedFunctionAccepted ==
    Accepted =>
      \A n \in AstNodes(sql) :
          IsInstance(n, {"FUNC"}) => Lower(FuncSqlName(n)) \notin cfg.blocked_functions

----------------------------------------------------------------------------
(* Letter case                                                             *)

\* a word in upper case or in lower case
Fold(w, up) == IF up THEN Upper(w) ELSE Lower(w)

\* the constructs of a statement that carry a table, column or function
\* name, or an alias
NamingKw == {"TABLE", "COLUMN", "CALL", "CTE", "SUBQUERY"}

RECURSIVE RecaseStmt(_, _)
\* a statement with the letter case of every table, column and function
\* name changed; keywords and literals stay as written
RecaseStmt(s, up) ==
    Stmt(s.kw,
         IF s.kw \in NamingKw THEN Fold(s.name, up) ELSE s.name,
         IF s.kw \in NamingKw THEN Fold(s.qual, up) ELSE s.qual,
         [i \in DOMAIN s.kids |-> RecaseStmt(s.kids[i], up)])

RecaseText(text, up) ==
    Text([i \in DOMAIN text.items |-> RecaseStmt(text.items[i], up)], text.comment)

\* a validator built from the same block-lists written in another case
RecaseConfig(self, up) ==
    SQLValidator_init({ Fold(f, up) : f \in self.blocked_functions },
                      { Fold(t, up) : t \in self.blocked_tables },
                      { Fold(cn, up) : cn \in self.blocked_columns },
                      self.explain_policy)

\* C11: the verdict of validate does not depend on the letter case of the
\* table, column and function names of the text, nor on the letter case of
\* the entries of the block-lists: every recasing of the text, under every
\* recasing of the lists, gets the verdict the text got.
C11_CaseInsensitive ==
    Validated =>
      \A upList \in BOOLEAN, upText \in BOOLEAN :
          validate(RecaseConfig(cfg, upList), RecaseText(sql, upText))[1] = result[1]

\* a table written in upper case has been rejected for a block-list entry
\* that the validator holds in lower case
C11_Witness ==
    /\ phase = "validated"
    /\ \E i \in DOMAIN sql.items : USERS \in RefTables(sql.items[i])
    /\ users \in cfg.blocked_tables
    /\ verdict.msg.text = "Access to table is blocked"
    /\ RecaseText(sql, FALSE) # sql

----------------------------------------------------------------------------
(* The order of the rules                                                  *)

RuleOrder ==
    <<"empty", "parse", "single", "statement_type", "functions", "tables",
      "columns">>

\* what a rule says of a text when it is asked on its own
RuleOutcome(rule, self, text) ==
    LET statement == ParseOne(text).statement IN
    CASE rule = "empty"          -> check_empty(text)
      [] rule = "parse"          -> check_parse(text)
      [] rule = "single"         -> check_single(text)
      [] rule = "statement_type" -> check_statement_type(self, statement, text)
      [] rule = "functions"      -> check_blocked_functions(self, statement)
      [] rule = "tables"         -> check_blocked_tables(self, statement)
      [] rule = "columns"        -> check_blocked_columns(self, statement)

\* the place in RuleOrder of the earliest rule a text violates; the place of
\* the last rule if it violates none
EarliestViolated(self, text) ==
    LET violated == { i \in DOMAIN RuleOrder :
                        RuleOutcome(RuleOrder[i], self, text) # NoError } IN
    IF violated = {} THEN Len(RuleOrder)
    ELSE CHOOSE i \in violated : \A j \in violated : i <= j

\* C12: validate_or_raise takes its steps in the order empty, parse, single
\* statement, statement kind, functions, tables, columns; every step before
\* the last one taken passed; the steps end with the earliest rule the text
\* violates, whose error is the one reported, and no later rule is evaluated.
C12_FixedOrderFirstFailure ==
    Validated =>
      LET first == EarliestViolated(cfg, sql) IN
      /\ Len(ran) = first
      /\ \A i \in 1..first : ran[i].rule = RuleOrder[i]
      /\ \A i \in 1..(first - 1) : ran[i].outcome = NoError
      /\ ran[first].outcome = RuleOutcome(RuleOrder[first], cfg, sql)
      /\ verdict = ran[first].outcome

\* a text that violates the table rule and the column rule has been
\* rejected for the table, and the column rule was not evaluated
C12_Witness ==
    /\ phase = "validated"
    /\ RuleOutcome("tables", cfg, sql) # NoError
    /\ RuleOutcome("columns", cfg, sql) # NoError
    /\ verdict.msg.text = "Access to table is blocked"
    /\ \A i \in DOMAIN ran : ran[i].rule # "columns"

----------------------------------------------------------------------------
(* The two entry points                                                    *)

\* validate returned a pair; no exception left it
Returned == Len(result) = 2

\* the parser cannot read the text
Unparseable(text) == ParseOne(text).error

\* C13: validate never raises; it returns (True, None) exactly when
\* validate_or_raise completes without error, and otherwise (False, message)
\* with the non-empty message of the exception; an empty or unparseable
\* text is reported as SQLParseError and every other rejection (several
\* statements, statement kind, blocked function, table or column) as
\* SecurityViolationError.
C13_ValidateTotal ==
    Validated =>
      /\ Returned
      /\ (result = <<TRUE, NoMsg>>) <=> (verdict = NoError)
      /\ verdict # NoError =>
            /\ result[1] = FALSE
            /\ result[2] = verdict.msg
            /\ result[2].text # ""
      /\ (IsBlank(sql) \/ Unparseable(sql)) => verdict.error = "SQLParseError"
      /\ (~IsBlank(sql) /\ ~Unparseable(sql) /\ verdict # NoError) =>
            /\ verdict.error = "SecurityViolationError"
            /\ ran[Len(ran)].rule \in
                  {"single", "statement_type", "functions", "tables", "columns"}

\* an unreadable text has been turned into (False, message)
C13_Witness ==
    /\ phase = "validated"
    /\ \E i \in DOMAIN sql.items : sql.items[i] = Garbage
    /\ verdict.error = "SQLParseError"
    /\ result = <<FALSE, Msg("Failed to parse SQL", "", NoWord)>>

----------------------------------------------------------------------------
(* Normal form and table names                                             *)

\* a list in ascending order without repeated entries
StrictlySorted(seq) ==
    \A i \in 1..(Len(seq) - 1) : StrLess(seq[i], seq[i + 1])

\* the table names of the only statement of an accepted text
TablesOfStatement(text) == RefTables(StatementsOf(text)[1])

\* C14, first part: the tables extracted from the normal form of an
\* accepted text are the tables extracted from the text.
RoundTrip ==
    Accepted =>
      /\ normalize_sql(sql).error = "none"
      /\ extract_tables(normalize_sql(sql).sql) = extract_tables(sql)

\* C14: for an accepted text, extract_tables of the normal form equals
\* extract_tables of the text, and extract_tables returns the names of the
\* tables the statement refers to, in ascending order, each once.
C14_ExtractTables ==
    Accepted =>
      /\ normalize_sql(sql).error = "none"
      /\ extract_tables(normalize_sql(sql).sql) = extract_tables(sql)
      /\ StrictlySorted(extract_tables(sql).tables)
      /\ { extract_tables(sql).tables[i] : i \in DOMAIN extract_tables(sql).tables }
            = TablesOfStatement(sql)

----------------------------------------------------------------------------
(* The query tool                                                          *)

C16_NotInitialized ==
    (call.pc # "none" /\ call.orchestrator = "None") =>
      /\ call.pc = "returned"
      /\ call.response =
            FacadeError("SERVER_NOT_INITIALIZED", "Server not initialized properly",
                        NoDetails)
      /\ call.context = "not_opened"
      /\ call.invoked = 0

\* after a startup that failed, a call with a return_type that is not valid
\* has been answered SERVER_NOT_INITIALIZED
C16_Witness ==
    /\ life.pc = "done" /\ life.raised
    /\ _orchestrator = "None"
    /\ call.pc = "returned"
    /\ call.return_type = "rows"
    /\ call.response.error.code = "SERVER_NOT_INITIALIZED"

\* C17: a call that finds the orchestrator published and is given a
\* return_type other than "sql" and "result" returns success = False with
\* code INVALID_PARAMETER and details {"return_type": the value given}, and
\* the orchestrator is not invoked.
C17_InvalidReturnType ==
    (call.pc # "none" /\ call.orchestrator # "None"
                      /\ call.return_type \notin {"sql", "result"}) =>
      /\ call.pc = "returned"
      /\ call.response.success = FALSE
      /\ call.response.error.code = "INVALID_PARAMETER"
      /\ call.response.error.details = Details("return_type", call.return_type)
      /\ call.invoked = 0

\* an initialised server has answered INVALID_PARAMETER
C17_Witness ==
    /\ call.pc = "returned"
    /\ call.orchestrator = "QueryOrchestrator"
    /\ call.return_type = "rows"
    /\ call.response.error.code = "INVALID_PARAMETER"
    /\ call.response.error.details = Details("return_type", "rows")

\* C18: every dict query returns holds the keys success, confidence and
\* tokens_used.
C18_ResponseKeys ==
    (call.pc = "returned" /\ ~call.raised) =>
      {"success", "confidence", "tokens_used"} \subseteq call.response.keys

----------------------------------------------------------------------------
(* Shutdown                                                                *)

\* C19: close_pools is never started while the attempt to stop the schema
\* auto-refresh is in progress; when close_pools has been called it was
\* called with a timeout of five seconds, and if there is a schema cache the
\* stop attempt was made before, under a bounded wait, and has ended: it
\* returned, timed out or failed.
C19_StopBeforeClose ==
    /\ life.stop = "in_progress" => life.close_calls = 0
    /\ life.close_calls > 0 =>
          /\ life.close_timeout = 5
          /\ _schema_cache # "None" =>
                /\ life.stop \in {"stopped", "timed_out", "failed"}
                /\ life.stop_timeout = 3

\* the pools have been closed after a stop attempt that timed out
C19_Witness ==
    /\ life.close_calls = 1
    /\ life.stop = "timed_out"
    /\ life.closed # {}

----------------------------------------------------------------------------
(* The circuit breaker                                                     *)

\* C20: starting from CLOSED with failure_threshold = N, the breaker is
\* CLOSED while fewer than N record_failure calls in a row have been made
\* and OPEN right after the N-th; and allow_request on a breaker that is
\* OPEN, its recovery_timeout not elapsed, returns false and leaves it OPEN.
C20_OpensAtThreshold ==
    /\ (State(breaker, clock) = "CLOSED") <=> (probe.streak < breaker.failure_threshold)
    /\ (probe.op = "record_failure" /\ probe.was = "CLOSED"
           /\ probe.streak = breaker.failure_threshold) => breaker.state = "OPEN"
    /\ (probe.op = "allow_request" /\ probe.was = "OPEN") =>
          (~probe.returned /\ breaker.state = "OPEN")

\* a breaker with a threshold above one has been refused a request after
\* its threshold of failures
C20_Witness ==
    /\ breaker.failure_threshold = MaxThreshold
    /\ probe.streak = MaxThreshold
    /\ probe.op = "allow_request"
    /\ probe.was = "OPEN"
    /\ ~probe.returned

\* C21: a breaker that is OPEN, its recovery_timeout elapsed since the last
\* failure was recorded, reports HALF_OPEN, and allow_request on it returns
\* true and leaves it HALF_OPEN; a breaker that became OPEN less than
\* recovery_timeout ago reports OPEN and allows no request, and no request
\* was ever allowed by a breaker that was not CLOSED before recovery_timeout
\* had elapsed since it became OPEN.
C21_HalfOpenAfterTimeout ==
    /\ (breaker.state = "OPEN" /\ tripped.last_failure >= 0
           /\ clock - tripped.last_failure >= breaker.recovery_timeout) =>
          /\ State(breaker, clock) = "HALF_OPEN"
          /\ allow_request(breaker, clock)[2]
          /\ State(allow_request(breaker, clock)[1], clock) = "HALF_OPEN"
    /\ (breaker.state = "OPEN" /\ clock - tripped.at < breaker.recovery_timeout) =>
          /\ State(breaker, clock) = "OPEN"
          /\ ~allow_request(breaker, clock)[2]
    /\ (probe.op = "allow_request" /\ probe.was # "CLOSED" /\ probe.returned) =>
          /\ tripped.at >= 0
          /\ clock - tripped.at >= breaker.recovery_timeout

\* a breaker with the longest timeout has allowed a request at the very
\* tick its timeout elapsed, having refused one before
C21_Witness ==
    /\ breaker.recovery_timeout = MaxTimeout
    /\ probe.op = "allow_request"
    /\ probe.was = "HALF_OPEN"
    /\ probe.returned
    /\ breaker.state = "HALF_OPEN"
    /\ clock - tripped.at = MaxTimeout

\* C22: record_success on a breaker that reports HALF_OPEN leaves it CLOSED,
\* record_failure on a breaker that reports HALF_OPEN leaves it OPEN, and no
\* step takes the breaker from reporting OPEN to reporting CLOSED.
C22_HalfOpenTransitions ==
    /\ []((probe.op = "record_success" /\ probe.was = "HALF_OPEN") =>
             State(breaker, clock) = "CLOSED")
    /\ []((probe.op = "record_failure" /\ probe.was = "HALF_OPEN") =>
             State(breaker, clock) = "OPEN")
    /\ [][State(breaker, clock) = "OPEN" => State(breaker', clock') # "CLOSED"]_vars

\* a breaker that was OPEN has been closed by one success found in HALF_OPEN
C22_Witness ==
    /\ probe.op = "record_success"
    /\ probe.was = "HALF_OPEN"
    /\ tripped.at >= 0
    /\ breaker.state = "CLOSED"
    /\ breaker.failure_threshold = MaxThreshold

----------------------------------------------------------------------------
(* The rate limiter                                                        *)

\* C23: with tasks entering and leaving the limiter's scope in any order,
\* active_count is at least 0 and at most max_concurrent in every state and
\* is the number of tasks inside the scope, and no step lowers
\* total_requests or total_rejections.
C23_ActiveBounded ==
    /\ [](/\ 0 <= limiter.active_count
          /\ limiter.active_count <= limiter.max_concurrent
          /\ limiter.active_count =
                Cardinality({t \in Tasks : task[t] = "inside"}))
    /\ [][/\ limiter'.total_requests >= limiter.total_requests
          /\ limiter'.total_rejections >= limiter.total_rejections]_vars

\* every slot is taken, one more task is asking for one, and a task has
\* been denied before
C23_Witness ==
    /\ limiter.max_concurrent = MaxConcurrent
    /\ limiter.active_count = MaxConcurrent
    /\ \E t \in Tasks : task[t] = "waiting"
    /\ limiter.total_rejections > 0

----------------------------------------------------------------------------
(* Startup and shutdown of the server process                              *)

RegistryCreatedThisRun ==
    /\ life.pc \notin {"not_started", "settings", "logging", "registry"}
    /\ life.failed_at \notin {"settings", "logging", "registry"}

\* the exit paths on which no cancellation reaches the wait for
\* stop_auto_refresh: close_pools has been invoked exactly once, on the
\* pools of the registry, when the lifespan ends
ClosedOnceUnlessCancelled ==
    (life.pc = "done" /\ RegistryCreatedThisRun /\ life.stop # "cancelled") =>
      /\ life.close_calls = 1
      /\ life.closed = DictValues(_pools.dict)

\* C25: when a lifespan that has created the pool registry ends, close_pools
\* has been invoked exactly once on the registry, and a startup exception
\* reaches the caller only after that.
C25_ClosedOnEveryExit ==
    /\ life.close_calls <= 1
    /\ (life.pc = "done" /\ RegistryCreatedThisRun) =>
          /\ life.close_calls = 1
          /\ life.closed = DictValues(_pools.dict)
    /\ (life.raised /\ life.failed_at # "none" /\ RegistryCreatedThisRun) =>
          life.close_calls = 1

\* every pool create_pool has returned in this run is in the registry under
\* its database name, two pools make two entries, and close_pools was given
\* every one of them
PoolsOwned ==
    /\ life.made \subseteq DictValues(_pools.dict)
    /\ Pool(life.runs, 1) \in life.made =>
          /\ getenv("DATABASE_NAME", "postgres") \in DOMAIN _pools.dict
          /\ _pools.dict[getenv("DATABASE_NAME", "postgres")] = Pool(life.runs, 1)
    /\ Pool(life.runs, 2) \in life.made =>
          /\ env.DATABASE2_NAME \in DOMAIN _pools.dict
          /\ _pools.dict[env.DATABASE2_NAME] = Pool(life.runs, 2)
          /\ Cardinality(DOMAIN _pools.dict) = 2
    /\ life.close_calls = 1 => life.made \subseteq life.closed

\* with two different database names the pools are owned as above
PoolsOwnedDistinctNames ==
    env.DATABASE2_NAME # getenv("DATABASE_NAME", "postgres") => PoolsOwned

\* C26: every pool create_pool returns during startup is in the registry
\* under its database name from then on and is among the pools close_pools
\* is given, and once the second pool is created the registry holds two
\* entries, whatever the two database names are.
C26_PoolsOwnedByRegistry ==
    \A e \in Environments : env = e => PoolsOwned
====
